---- MODULE Spec2Model ----
(***************************************************************************)
(* Statistics core and histogram renderer of nvbench:                      *)
(*   nvbench::detail::compute_noise, compute_percentiles,                  *)
(*   compute_histogram, fit_histogram and                                  *)
(*   nvbench::internal::histogram_printer.                                 *)
(*                                                                         *)
(* Samples and the caller's window (min, stride) are integers, or          *)
(* multiples of a common power of two; fit_histogram is also called with   *)
(* a min of magnitude 2^BigMinExp, where min + stride * i is not exact.    *)
(* The float64 arithmetic of                                               *)
(* compute_histogram and fit_histogram (min + stride * i,                  *)
(* (max - min) / bins) and the float32 arithmetic of fit_histogram's       *)
(* threshold and of the renderer are modelled bit-exactly: 53- and 24-bit  *)
(* significands, round to nearest even, inf and NaN for divisions by zero. *)
(* compute_noise is modelled in exact rational arithmetic.                 *)
(***************************************************************************)
EXTENDS Integers, Sequences, FiniteSets, TLC

VARIABLES
  op,          \* which entry point this run calls
  pc,          \* position inside the called function
  data,        \* the sample vector
  win,         \* the caller's min and stride (references in fit_histogram)
  win_in,      \* min * 2^exp and stride as held when the call was made
  bins,        \* the bins argument
  frac,        \* count_thresh_frac = frac / 2^FracBits
  histo,       \* fit_histogram's local histo
  most,        \* fit_histogram's local most
  thresh,      \* fit_histogram's local thresh
  min_level,   \* fit_histogram's local min_level
  max_level,   \* fit_histogram's local max_level
  reads,       \* indices of histo read by the two trimming loops
  result,      \* the returned vector
  percentiles, \* compute_percentiles' percentiles argument
  sum,         \* compute_noise's sum argument
  noise,       \* the value compute_noise returns
  m_bins,          \* the caller's vector histogram_printer::m_bins refers to
  m_bins_state,    \* that vector since the constructor: intact or dead
  m_num_bins,      \* histogram_printer::m_num_bins
  m_scale_factor,  \* histogram_printer::m_scale_factor (a float32)
  m_chart,         \* histogram_printer::m_chart
  bin,             \* render's loop variable
  num_fulls,       \* num_full of every render_bin call made so far
  assert_ok,       \* no assert of the renderer has failed so far
  text             \* the string render returns, as code points

histVars == <<data, win, win_in, bins, frac, histo, most, thresh,
              min_level, max_level, reads, result>>
statVars == <<percentiles, sum, noise>>
rendVars == <<m_bins, m_bins_state, m_num_bins, m_scale_factor, m_chart, bin,
              num_fulls, assert_ok, text>>
vars == <<op, pc, histVars, statVars, rendVars>>

(***************************************************************************)
(* Bounds of the input domains.                                            *)
(***************************************************************************)
MaxLen == 3
MaxVal == 3
MaxMin == 1
MaxStride == 2
MaxBins == 3
FracBits == 1
BigMinExp == 55

RECURSIVE SumSeq(_)
SumSeq(s) == IF s = <<>> THEN 0 ELSE Head(s) + SumSeq(Tail(s))

IsSorted(s) == \A i \in 1..(Len(s) - 1) : s[i] <= s[i + 1]

SortedSeqs(vals, maxlen) ==
  {s \in UNION {[1..n -> vals] : n \in 0..maxlen} : IsSorted(s)}

\* Element i of a C++ vector (0-based).
At(v, i) == v[i + 1]

RECURSIVE BitLen(_)
BitLen(n) == IF n = 0 THEN 0 ELSE 1 + BitLen(n \div 2)

(***************************************************************************)
(* float32 arithmetic.  A float32 is [m, e], the value                     *)
(* m * 2^-e with 0 <= m <= 2^24.                                           *)
(***************************************************************************)
SignificandBits == 24

\* num / den rounded to the nearest integer, ties to even.
RoundDiv(num, den) ==
  LET q == num \div den
      r == num % den
  IN IF 2 * r > den \/ (2 * r = den /\ q % 2 = 1) THEN q + 1 ELSE q

\* n * 2^-e rounded to a float32.
Round24(n, e) ==
  LET s == BitLen(n) - SignificandBits
  IN IF s <= 0 THEN [m |-> n, e |-> e]
     ELSE [m |-> RoundDiv(n, 2 ^ s), e |-> e - s]

\* 1.f / static_cast<float32_t>(v), v >= 1
float_inverse(v) ==
  LET e == (SignificandBits - 1) + BitLen(v - 1)
  IN [m |-> RoundDiv(2 ^ e, v), e |-> e]

\* f * static_cast<float32_t>(v), v a small non-negative integer
float_times(f, v) == Round24(f.m * v, f.e)

\* static_cast to an unsigned integer: truncation
float_trunc(f) == IF f.e >= 0 THEN f.m \div (2 ^ f.e) ELSE f.m * (2 ^ (0 - f.e))

\* std::fmod(f, 1.f)
float_fmod_one(f) == IF f.e <= 0 THEN [m |-> 0, e |-> 0]
                     ELSE [m |-> f.m % (2 ^ f.e), e |-> f.e]


(***************************************************************************)
(* Unbounded naturals: little-endian sequences of limbs below Base, with   *)
(* no leading zero limb (zero is the empty sequence).                      *)
(***************************************************************************)
LimbBits == 15
Base == 2 ^ LimbBits

RECURSIVE BigNorm(_)
BigNorm(a) ==
  IF a = <<>> THEN <<>>
  ELSE IF a[Len(a)] = 0 THEN BigNorm(SubSeq(a, 1, Len(a) - 1)) ELSE a

RECURSIVE BigFromInt(_)
BigFromInt(n) ==
  IF n = 0 THEN <<>> ELSE <<n % Base>> \o BigFromInt(n \div Base)

RECURSIVE BigMulCarry(_, _, _)
BigMulCarry(a, k, c) ==
  IF a = <<>> THEN BigFromInt(c)
  ELSE LET t == Head(a) * k + c
       IN <<t % Base>> \o BigMulCarry(Tail(a), k, t \div Base)

\* a * k for 0 <= k < Base
BigMulSmall(a, k) == BigNorm(BigMulCarry(a, k, 0))

RECURSIVE BigAddCarry(_, _, _)
BigAddCarry(a, b, c) ==
  IF a = <<>> /\ b = <<>> THEN BigFromInt(c)
  ELSE LET x == IF a = <<>> THEN 0 ELSE Head(a)
           y == IF b = <<>> THEN 0 ELSE Head(b)
           t == x + y + c
       IN <<t % Base>> \o BigAddCarry(IF a = <<>> THEN a ELSE Tail(a),
                                     IF b = <<>> THEN b ELSE Tail(b),
                                     t \div Base)

BigAdd(a, b) == BigAddCarry(a, b, 0)

RECURSIVE BigSubBorrow(_, _, _)
BigSubBorrow(a, b, c) ==
  IF a = <<>> THEN <<>>
  ELSE LET y == IF b = <<>> THEN 0 ELSE Head(b)
           t == Head(a) - y - c
       IN <<t % Base>> \o BigSubBorrow(Tail(a),
                                      IF b = <<>> THEN b ELSE Tail(b),
                                      IF t < 0 THEN 1 ELSE 0)

\* a - b for a >= b
BigSub(a, b) == BigNorm(BigSubBorrow(a, b, 0))

RECURSIVE BigCmpFrom(_, _, _)
BigCmpFrom(a, b, i) ==
  IF i = 0 THEN 0
  ELSE IF a[i] < b[i] THEN -1
  ELSE IF a[i] > b[i] THEN 1
  ELSE BigCmpFrom(a, b, i - 1)

\* -1, 0, 1 as a < b, a = b, a > b
BigCmp(a, b) ==
  IF Len(a) < Len(b) THEN -1
  ELSE IF Len(a) > Len(b) THEN 1
  ELSE BigCmpFrom(a, b, Len(a))

\* quotient and remainder of a by d, 1 <= d < Base
RECURSIVE BigDivRec(_, _)
BigDivRec(a, d) ==
  IF a = <<>> THEN [q |-> <<>>, r |-> 0]
  ELSE LET h   == BigDivRec(Tail(a), d)
           cur == h.r * Base + Head(a)
       IN [q |-> <<cur \div d>> \o h.q, r |-> cur % d]

BigDivSmall(a, d) ==
  LET x == BigDivRec(a, d) IN [q |-> BigNorm(x.q), r |-> x.r]

BigBitLen(a) ==
  IF a = <<>> THEN 0 ELSE LimbBits * (Len(a) - 1) + BitLen(a[Len(a)])

\* a * 2^s
BigShl(a, s) ==
  IF a = <<>> THEN <<>>
  ELSE [k \in 1..(s \div LimbBits) |-> 0] \o BigMulSmall(a, 2 ^ (s % LimbBits))

\* floor(a / 2^s)
BigShr(a, s) ==
  BigDivSmall(SubSeq(a, (s \div LimbBits) + 1, Len(a)), 2 ^ (s % LimbBits)).q

\* a / 2^s rounded to the nearest integer, ties to even (s >= 1)
BigRoundShift(a, s) ==
  LET q    == BigShr(a, s)
      rem  == BigSub(a, BigShl(q, s))
      half == BigShl(<<1>>, s - 1)
      c    == BigCmp(rem, half)
      odd  == q # <<>> /\ q[1] % 2 = 1
  IN IF c > 0 \/ (c = 0 /\ odd) THEN BigAdd(q, <<1>>) ELSE q

(***************************************************************************)
(* float64 arithmetic.  A finite double is [kind |-> "num", neg, m, e]: the *)
(* value (-1)^neg * m * 2^-e with m below 2^53.  Exponent overflow and     *)
(* underflow are out of reach of the values used here.                     *)
(***************************************************************************)
DoubleBits == 53

F64NaN == [kind |-> "nan", neg |-> FALSE, m |-> <<>>, e |-> 0]
F64Inf(neg) == [kind |-> "inf", neg |-> neg, m |-> <<>>, e |-> 0]

\* (-1)^neg * m * 2^-e rounded to the nearest double, ties to even
F64Round(neg, m, e) ==
  LET s == BigBitLen(m) - DoubleBits
  IN IF s <= 0 THEN [kind |-> "num", neg |-> neg, m |-> m, e |-> e]
     ELSE [kind |-> "num", neg |-> neg, m |-> BigRoundShift(m, s), e |-> e - s]

\* static_cast<float64_t>(n) for a small integer n
F64FromInt(n) ==
  [kind |-> "num", neg |-> n < 0,
   m |-> BigFromInt(IF n < 0 THEN 0 - n ELSE n), e |-> 0]

F64IsZero(a) == a.kind = "num" /\ a.m = <<>>

F64Neg(a) == IF a.kind = "nan" THEN a ELSE [a EXCEPT !.neg = ~a.neg]

\* a + b
F64Add(a, b) ==
  IF a.kind = "nan" \/ b.kind = "nan" THEN F64NaN
  ELSE IF a.kind = "inf"
    THEN IF b.kind = "inf" /\ b.neg # a.neg THEN F64NaN ELSE a
  ELSE IF b.kind = "inf" THEN b
  ELSE LET e  == IF a.e > b.e THEN a.e ELSE b.e
           ma == BigShl(a.m, e - a.e)
           mb == BigShl(b.m, e - b.e)
           c  == BigCmp(ma, mb)
       IN IF a.neg = b.neg THEN F64Round(a.neg, BigAdd(ma, mb), e)
          ELSE IF c = 0 THEN F64Round(FALSE, <<>>, e)
          ELSE IF c > 0 THEN F64Round(a.neg, BigSub(ma, mb), e)
          ELSE F64Round(b.neg, BigSub(mb, ma), e)

\* a - b
F64Sub(a, b) == F64Add(a, F64Neg(b))

\* a * static_cast<float64_t>(k) for an unsigned k below Base
F64MulInt(a, k) ==
  IF a.kind = "nan" THEN F64NaN
  ELSE IF a.kind = "inf" THEN (IF k = 0 THEN F64NaN ELSE a)
  ELSE F64Round(a.neg, BigMulSmall(a.m, k), a.e)

\* a / static_cast<float64_t>(k) for an unsigned k below 2^13
F64DivInt(a, k) ==
  IF a.kind = "nan" THEN F64NaN
  ELSE IF a.kind = "inf" THEN a
  ELSE IF k = 0 THEN (IF F64IsZero(a) THEN F64NaN ELSE F64Inf(a.neg))
  ELSE LET sh == DoubleBits + 2 + BitLen(k)
           d  == BigDivSmall(BigShl(a.m, sh), k)
           \* one more bit that is set when the division left a remainder
           q  == BigAdd(BigShl(d.q, 1), IF d.r = 0 THEN <<>> ELSE <<1>>)
       IN F64Round(a.neg, q, a.e + sh + 1)

\* a < b
F64Less(a, b) ==
  IF a.kind = "nan" \/ b.kind = "nan" THEN FALSE
  ELSE IF a.kind = "inf" THEN (a.neg /\ ~(b.kind = "inf" /\ b.neg))
  ELSE IF b.kind = "inf" THEN ~b.neg
  ELSE LET e  == IF a.e > b.e THEN a.e ELSE b.e
           ma == BigShl(a.m, e - a.e)
           mb == BigShl(b.m, e - b.e)
           c  == BigCmp(ma, mb)
       IN IF a.neg /\ ~b.neg THEN ~(ma = <<>> /\ mb = <<>>)
          ELSE IF ~a.neg /\ b.neg THEN FALSE
          ELSE IF a.neg THEN c > 0
          ELSE c < 0

(***************************************************************************)
(* compute_histogram                                                       *)
(***************************************************************************)
\* The float64 window of the integers w.min * 2^w.exp and w.stride.
Window(w) ==
  [min    |-> [kind |-> "num", neg |-> FALSE,
               m |-> BigFromInt(w.min), e |-> 0 - w.exp],
   stride |-> F64FromInt(w.stride)]

\* Line 283: level = min + stride * static_cast<float64_t>(i)
level(w, i) == F64Add(w.min, F64MulInt(w.stride, i))

less_or_equal(x, lvl) == ~F64Less(lvl, F64FromInt(x))

\* The comparison std::lower_bound makes: sample < level.
less(x, lvl) == F64Less(F64FromInt(x), lvl)

\* std::lower_bound(first, first + len, level): binary search, positions are
\* 0-based offsets from data.cbegin().
RECURSIVE lower_bound(_, _, _, _)
lower_bound(d, first, len, lvl) ==
  IF len <= 0 THEN first
  ELSE LET half == len \div 2
           mid  == first + half
       IN IF less(At(d, mid), lvl)
            THEN lower_bound(d, mid + 1, len - half - 1, lvl)
            ELSE lower_bound(d, first, half, lvl)

\* The for loop of compute_histogram from iteration i on, then the final
\* push_back.
RECURSIVE histogram_loop(_, _, _, _, _, _)
histogram_loop(d, w, nbins, i, iter, h) ==
  IF i < nbins + 1
    THEN LET next == lower_bound(d, iter, Len(d) - iter, level(w, i))
         IN histogram_loop(d, w, nbins, i + 1, next, Append(h, next - iter))
    ELSE Append(h, Len(d) - iter)

histogram_no_overflow_slot(d, w, nbins) ==
  SubSeq(histogram_loop(d, w, nbins, 0, 0, <<>>), 1, nbins + 1)

compute_histogram(d, w, nbins) == histogram_loop(d, w, nbins, 0, 0, <<>>)

(***************************************************************************)
(* fit_histogram                                                           *)
(***************************************************************************)
RECURSIVE MaxOf(_)
MaxOf(s) == IF s = <<>> THEN 0
            ELSE LET m == MaxOf(Tail(s)) IN IF Head(s) > m THEN Head(s) ELSE m

\* Line 314: static_cast<int64_t>(most * count_thresh_frac), a float32
\* product of static_cast<float32_t>(most) and f / 2^FracBits.
Thresh(m, f) ==
  LET most32 == Round24(m, 0)
  IN float_trunc(Round24(most32.m * f, most32.e + FracBits))

min_loop_cond(lvl, nbins, h, t) == lvl < nbins + 1 /\ At(h, lvl) < t

max_loop_cond(lvl, lo, h, t) == lvl > lo /\ At(h, lvl) < t

\* Lines 329-331: the window written back through the references.
fit_window(w, nbins, lo, hi) ==
  LET max     == F64Add(w.min, F64MulInt(w.stride, hi + 1))
      new_min == F64Add(w.min, F64MulInt(w.stride, lo))
  IN [min |-> new_min, stride |-> F64DivInt(F64Sub(max, new_min), nbins)]

NoFloat == [m |-> 0, e |-> 0]

HistLocalsIdle ==
  /\ histo = <<>>
  /\ most = 0
  /\ thresh = 0
  /\ min_level = 0
  /\ max_level = 0
  /\ reads = {}
  /\ result = <<>>

HistArgsIdle ==
  /\ win_in = [min |-> 0, stride |-> 0, exp |-> 0]
  /\ win = Window(win_in)
  /\ bins = 0
  /\ frac = 0

StatIdle ==
  /\ percentiles = <<>>
  /\ sum = 0
  /\ noise = [kind |-> "none"]

RendIdle ==
  /\ m_bins = <<>>
  /\ m_bins_state = "intact"
  /\ m_num_bins = 0
  /\ m_scale_factor = NoFloat
  /\ m_chart = <<>>
  /\ bin = 0
  /\ num_fulls = <<>>
  /\ assert_ok = TRUE
  /\ text = <<>>

InitHist ==
  /\ op \in {"compute_histogram", "fit_histogram"}
  /\ pc = "call"
  /\ \/ /\ data \in SortedSeqs(0..MaxVal, MaxLen)
        /\ win_in \in [min : 0..MaxMin, stride : 0..MaxStride, exp : {0}]
        /\ bins \in 0..MaxBins
     \/ /\ data = <<1, 3, 5, 7>>      \* 0.5, 1.5, 2.5, 3.5 in halves
        /\ win_in = [min |-> 0, stride |-> 2, exp |-> 0]
        /\ bins = 4
     \/ /\ op = "fit_histogram"      \* a window far above the samples
        /\ data \in SortedSeqs(0..MaxVal, MaxLen)
        /\ win_in \in [min : 1..MaxMin, stride : 0..MaxStride,
                        exp : {BigMinExp}]
        /\ bins \in 0..MaxBins
  /\ win = Window(win_in)
  /\ frac \in IF op = "fit_histogram" THEN 0..(2 ^ FracBits) ELSE {0}
  /\ HistLocalsIdle
  /\ StatIdle
  /\ RendIdle

ComputeHistogram ==
  /\ op = "compute_histogram"
  /\ pc = "call"
  /\ result' = compute_histogram(data, win, bins)
  /\ pc' = "done"
  /\ UNCHANGED <<op, data, win, win_in, bins, frac, histo, most, thresh,
                 min_level, max_level, reads, statVars, rendVars>>

\* Lines 308-316.
FitBegin ==
  /\ op = "fit_histogram"
  /\ pc = "call"
  /\ histo' = compute_histogram(data, win, bins)
  /\ most' = MaxOf(histo')
  /\ thresh' = Thresh(most', frac)
  /\ min_level' = 1
  /\ pc' = "min_loop"
  /\ UNCHANGED <<op, data, win, win_in, bins, frac, max_level, reads, result,
                 statVars, rendVars>>

\* Lines 317-321, one iteration.
FitMinLoopStep ==
  /\ pc = "min_loop"
  /\ min_loop_cond(min_level, bins, histo, thresh)
  /\ reads' = reads \cup {min_level}
  /\ min_level' = min_level + 1
  /\ UNCHANGED <<op, pc, data, win, win_in, bins, frac, histo, most, thresh,
                 max_level, result, statVars, rendVars>>

\* Lines 317-323, the loop's exit.
FitMinLoopExit ==
  /\ pc = "min_loop"
  /\ ~min_loop_cond(min_level, bins, histo, thresh)
  /\ reads' = IF min_level < bins + 1 THEN reads \cup {min_level} ELSE reads
  /\ max_level' = bins + 1
  /\ pc' = "max_loop"
  /\ UNCHANGED <<op, data, win, win_in, bins, frac, histo, most, thresh,
                 min_level, result, statVars, rendVars>>

\* Lines 324-327, one iteration.
FitMaxLoopStep ==
  /\ pc = "max_loop"
  /\ max_loop_cond(max_level, min_level, histo, thresh)
  /\ reads' = reads \cup {max_level}
  /\ max_level' = max_level - 1
  /\ UNCHANGED <<op, pc, data, win, win_in, bins, frac, histo, most, thresh,
                 min_level, result, statVars, rendVars>>

\* Lines 324-334: the loop's exit, the new window and the second histogram.
FitFinish ==
  /\ pc = "max_loop"
  /\ ~max_loop_cond(max_level, min_level, histo, thresh)
  /\ reads' = IF max_level > min_level THEN reads \cup {max_level} ELSE reads
  /\ win' = fit_window(win, bins, min_level, max_level)
  /\ result' = compute_histogram(data, win', bins)
  /\ pc' = "done"
  /\ UNCHANGED <<op, data, win_in, bins, frac, histo, most, thresh,
                 min_level, max_level, statVars, rendVars>>

NextHist ==
  \/ ComputeHistogram
  \/ FitBegin
  \/ FitMinLoopStep
  \/ FitMinLoopExit
  \/ FitMaxLoopStep
  \/ FitFinish

SpecHist == InitHist /\ [][NextHist]_vars

(***************************************************************************)
(* Properties of compute_histogram and fit_histogram                       *)
(***************************************************************************)
Done == pc = "done"
FitCase == op = "fit_histogram" /\ win_in.stride > 0 /\ bins >= 1

HistogramShape(h) ==
  /\ Len(h) = bins + 2
  /\ \A k \in 1..Len(h) : h[k] >= 0
  /\ SumSeq(h) = Len(data)

\* C1: every vector compute_histogram or fit_histogram returns has bins + 2
\* entries, all non-negative, that sum to data.size(); this includes stride 0,
\* bins 0 and the first histogram fit_histogram computes.
C1_HistogramShape ==
  /\ (Done => HistogramShape(result))
  /\ (op = "fit_histogram" /\ pc # "call" => HistogramShape(histo))

C1_Witness ==
  /\ Done
  /\ op = "fit_histogram"
  /\ bins >= 1
  /\ At(result, 0) > 0
  /\ At(result, bins + 1) > 0
  /\ \E i \in 1..bins : At(result, i) > 0

\* The counting reference of compute_histogram for an integer window.
RefEntry(d, w, nbins, i) ==
  Cardinality({k \in 1..Len(d) :
    /\ (i >= 1 => w.min + (i - 1) * w.stride <= d[k])
    /\ (i <= nbins => d[k] < w.min + i * w.stride)})

\* C2: for stride > 0 and bins >= 1 compute_histogram equals the counting
\* reference (entry 0: x < min; entry i: min + (i-1)*stride <= x <
\* min + i*stride; entry bins+1: x >= min + bins*stride), so a sample on a
\* boundary is counted in the bin that starts there; the samples 0.5, 1.5,
\* 2.5, 3.5 with min 0, stride 1, bins 4 give 0,1,1,1,1,0.
C2_CountingReference ==
  (Done /\ op = "compute_histogram" /\ win_in.stride > 0 /\ bins >= 1) =>
    /\ Len(result) = bins + 2
    /\ \A i \in 0..(bins + 1) : At(result, i) = RefEntry(data, win_in, bins, i)
    /\ (data = <<1, 3, 5, 7>> /\ win_in.min = 0 /\ win_in.stride = 2
          /\ bins = 4 => result = <<0, 1, 1, 1, 1, 0>>)

C2_Witness ==
  /\ Done
  /\ op = "compute_histogram"
  /\ win_in.stride > 0
  /\ bins >= 2
  /\ \E k \in 1..Len(data) : data[k] = win_in.min + win_in.stride
  /\ At(result, 2) >= 1
  /\ At(result, 1) >= 1

\* min + i * stride of the caller's original window, exactly.
OldLevel(i) ==
  BigAdd(BigShl(BigFromInt(win_in.min), win_in.exp),
         BigFromInt(i * win_in.stride))

\* Sample x lies in bin i (1..bins) of the caller's original window.
InOldBin(x, i) ==
  /\ BigCmp(OldLevel(i - 1), BigFromInt(x)) <= 0
  /\ BigCmp(BigFromInt(x), OldLevel(i)) < 0

\* Sample x lies in [min', min' + bins * stride') of the window written back,
\* both edges as compute_histogram computes them.
InNewWindow(x) ==
  /\ ~less(x, level(win, 0))
  /\ less(x, level(win, bins))

KeptSamples ==
  {k \in 1..Len(data) :
     \E i \in 1..bins : InOldBin(data[k], i) /\ At(histo, i) >= thresh}

\* C3: fit_histogram trims away only edge bins whose count is below thresh:
\* every sample of an in-window bin of the first histogram that reaches thresh
\* is inside the new window and counted in slots 1..bins of the result.
C3_KeptBinsStayInWindow ==
  (Done /\ FitCase) =>
    /\ \A k \in KeptSamples : InNewWindow(data[k])
    /\ Cardinality(KeptSamples) <= SumSeq(SubSeq(result, 2, bins + 1))

\* C4: fit_histogram only tightens the window: min' >= min and
\* min' + bins*stride' <= min + bins*stride; with count_thresh_frac = 0 the
\* window is unchanged.
C4_WindowOnlyTightens ==
  (Done /\ FitCase) =>
    LET old == Window(win_in) IN
    /\ ~F64Less(win.min, old.min)
    /\ ~F64Less(level(old, bins), level(win, bins))
    /\ (frac = 0 => ~F64Less(win.min, old.min) /\ ~F64Less(old.min, win.min)
                    /\ ~F64Less(win.stride, old.stride)
                    /\ ~F64Less(old.stride, win.stride))

LoopsInRange ==
  /\ (pc # "call" => 1 <= min_level /\ min_level <= bins + 1)
  /\ (pc \in {"max_loop", "done"} =>
        min_level <= max_level /\ max_level <= bins + 1)
  /\ reads \subseteq 0..(bins + 1)
  /\ (pc = "min_loop" => reads = 1..(min_level - 1))
  /\ (pc = "max_loop" => reads \subseteq 1..(bins + 1)
                           /\ (max_level + 1)..(bins + 1) \subseteq reads)

\* C5: the trimming loops keep 1 <= min_level <= max_level <= bins + 1 and
\* read only indices within 0..bins+1; the window written back is neither
\* empty nor inverted: stride' > 0 and bins*stride' >= stride (the product
\* as float64 computes it); the result has bins + 2 entries.
C5_WindowNeverEmpty ==
  FitCase =>
    /\ LoopsInRange
    /\ (Done => /\ win.stride.kind = "num"
                /\ ~win.stride.neg
                /\ win.stride.m # <<>>
                /\ ~F64Less(F64MulInt(win.stride, bins),
                            F64FromInt(win_in.stride))
                /\ Len(result) = bins + 2)

(***************************************************************************)
(* compute_percentiles                                                     *)
(***************************************************************************)
PctMaxLen == 3
PctMaxVal == 3
MaxPcts == 2
PctValues == {-7, 0, 1, 50, 75, 99, 100, 250}

\* std::clamp(p, 0, 100)
clamp(p, lo, hi) == IF p < lo THEN lo ELSE IF hi < p THEN hi ELSE p

percentile_index_rank_minus_one(p, n) ==
  IF p = 100 THEN n - 1 ELSE (p * (n - 1)) \div 100

\* (p == 100) ? (data.size() - 1) : (p * data.size() / 100), p clamped.
percentile_index(p, n) == IF p = 100 THEN n - 1 ELSE (p * n) \div 100

RECURSIVE compute_percentiles(_, _)
compute_percentiles(d, ps) ==
  IF ps = <<>> THEN <<>>
  ELSE LET p   == clamp(Head(ps), 0, 100)
           idx == percentile_index(p, Len(d))
       IN <<At(d, idx)>> \o compute_percentiles(d, Tail(ps))

PctLists == UNION {[1..n -> PctValues] : n \in 0..MaxPcts}

InitPct ==
  /\ op = "compute_percentiles"
  /\ pc = "call"
  /\ \/ /\ data \in SortedSeqs(1..PctMaxVal, PctMaxLen) \ {<<>>}
        /\ percentiles \in PctLists
     \/ /\ data = <<1, 2, 3, 4, 5>>
        /\ percentiles \in {<<0, 50, 100>>, <<100, 99, 75>>}
  /\ HistArgsIdle
  /\ HistLocalsIdle
  /\ sum = 0
  /\ noise = [kind |-> "none"]
  /\ RendIdle

ComputePercentiles ==
  /\ op = "compute_percentiles"
  /\ pc = "call"
  /\ result' = compute_percentiles(data, percentiles)
  /\ pc' = "done"
  /\ UNCHANGED <<op, data, win, win_in, bins, frac, histo, most, thresh,
                 min_level, max_level, reads, statVars, rendVars>>

NextPct == ComputePercentiles

SpecPct == InitPct /\ [][NextPct]_vars

\* The index the specification gives for a raw (unclamped) request.
RefIndex(p, n) ==
  IF p >= 100 THEN n - 1 ELSE IF p <= 0 THEN 0 ELSE (p * n) \div 100

\* C6: for non-empty sorted data compute_percentiles returns one value per
\* request, in request order, each data[idx] with idx = n-1 for a clamped p of
\* 100 and floor(p*n/100) otherwise, idx within 0..n-1; p <= 0 gives the
\* smallest sample, p >= 100 the largest, a larger p never a smaller value;
\* 1,2,3,4,5 with 0,50,100 gives 1,3,5.
C6_NearestRank ==
  (Done /\ op = "compute_percentiles") =>
    LET n == Len(data) IN
    /\ Len(result) = Len(percentiles)
    /\ \A k \in 1..Len(percentiles) :
         /\ RefIndex(percentiles[k], n) \in 0..(n - 1)
         /\ result[k] = At(data, RefIndex(percentiles[k], n))
         /\ \E j \in 1..n : result[k] = data[j]
         /\ (percentiles[k] <= 0 => result[k] = data[1])
         /\ (percentiles[k] >= 100 => result[k] = data[n])
    /\ \A j, k \in 1..Len(percentiles) :
         percentiles[j] <= percentiles[k] => result[j] <= result[k]
    /\ (data = <<1, 2, 3, 4, 5>> /\ percentiles = <<0, 50, 100>>
          => result = <<1, 3, 5>>)

C6_Witness ==
  /\ Done
  /\ op = "compute_percentiles"
  /\ data = <<1, 2, 3, 4, 5>>
  /\ percentiles = <<100, 99, 75>>
  /\ result = <<5, 5, 4>>

(***************************************************************************)
(* compute_noise                                                           *)
(***************************************************************************)
NoiseMaxLen == 6
NoiseMaxVal == 2
MinSamples == 5

\* sum over the samples of (num * val - sum)^2, that is num^2 times the sum of
\* (val - mean)^2 with mean = sum / num.
RECURSIVE SquaredDeviations(_, _, _)
SquaredDeviations(d, s, n) ==
  IF d = <<>> THEN 0
  ELSE (n * Head(d) - s) * (n * Head(d) - s) + SquaredDeviations(Tail(d), s, n)

Sign(x) == IF x < 0 THEN -1 ELSE IF x > 0 THEN 1 ELSE 0

\* abs_stdev / mean as an exact value: sign * sqrt(sq_num / sq_den), or the
\* IEEE result of the division by a zero mean.
noise_ratio(d, s) ==
  LET n   == Len(d)
      dev == SquaredDeviations(d, s, n)
  IN IF s = 0
       THEN IF dev = 0 THEN [kind |-> "nan"] ELSE [kind |-> "inf"]
       ELSE [kind |-> "finite", sign |-> Sign(s),
             sq_num |-> dev, sq_den |-> (n - 1) * s * s]

compute_noise_cutoff_exclusive(d, s) ==
  IF Len(d) <= MinSamples THEN [kind |-> "inf"] ELSE noise_ratio(d, s)

compute_noise(d, s) ==
  IF Len(d) < MinSamples THEN [kind |-> "inf"] ELSE noise_ratio(d, s)

InitNoise ==
  /\ op = "compute_noise"
  /\ pc = "call"
  /\ data \in SortedSeqs(-1..NoiseMaxVal, NoiseMaxLen)
  /\ sum \in {SumSeq(data), 0, 1}
  /\ HistArgsIdle
  /\ HistLocalsIdle
  /\ percentiles = <<>>
  /\ noise = [kind |-> "none"]
  /\ RendIdle

ComputeNoise ==
  /\ op = "compute_noise"
  /\ pc = "call"
  /\ noise' = compute_noise(data, sum)
  /\ pc' = "done"
  /\ UNCHANGED <<op, histVars, percentiles, sum, rendVars>>

NextNoise == ComputeNoise

SpecNoise == InitNoise /\ [][NextNoise]_vars

AllEqual(d) == \A i, j \in 1..Len(d) : d[i] = d[j]
IsZero(r) == r.kind = "finite" /\ r.sq_num = 0
IsPlusInfinity(r) == r.kind = "inf"

\* C7 as stated: for size >= 5, all samples equal to any v and sum = n*v,
\* compute_noise returns 0; for size < 5 it returns +infinity.
C7_AllEqualIsZero ==
  (Done /\ op = "compute_noise") =>
    /\ (Len(data) >= 5 /\ AllEqual(data) /\ sum = SumSeq(data)
          => IsZero(noise))
    /\ (Len(data) < 5 => IsPlusInfinity(noise))

\* C7 amended: for size >= 5, all samples equal to a v other than 0 and
\* sum = n*v, compute_noise returns 0 (for v = 0 it returns NaN, 0/0); for
\* size < 5 it returns +infinity whatever the values and sum.
C7_AllEqualNonZeroIsZero ==
  (Done /\ op = "compute_noise") =>
    /\ (Len(data) >= 5 /\ AllEqual(data) /\ sum = SumSeq(data)
          => IF data[1] # 0 THEN IsZero(noise) ELSE noise.kind = "nan")
    /\ (Len(data) < 5 => IsPlusInfinity(noise))

C7_Witness ==
  /\ Done
  /\ op = "compute_noise"
  /\ Len(data) = 5
  /\ AllEqual(data)
  /\ data[1] = 2
  /\ sum = 10
  /\ IsZero(noise)


(***************************************************************************)
(* histogram_printer                                                       *)
(*                                                                         *)
(* m_bins is a reference to the caller's vector (line 166).  The vector    *)
(* may be dead when render() runs (the constructor also binds to a         *)
(* temporary, which is dead when the constructor returns); m_num_bins and  *)
(* m_scale_factor keep the values computed by the constructor.  Reading a  *)
(* dead vector is undefined: the read crashes or yields whatever the       *)
(* storage holds by then (a stale count, the count of another vector the   *)
(* caller built there, allocator data): any value.  Every value above      *)
(* GarbageCount fails the assert of line 75 as GarbageCount does.          *)
(*                                                                         *)
(* The two asserts exist in builds without NDEBUG only.  With NDEBUG the   *)
(* statements after a false assert condition still run: write_element      *)
(* then stores outside m_chart, which is undefined: render() crashes, or   *)
(* goes on with m_chart as the in-range stores left it and with whatever   *)
(* the stores left in the vector m_bins refers to.                         *)
(***************************************************************************)
m_num_rows == 10
MaxRenderBins == 1
MaxSmallCount == 3
MaxCount == 41
GarbageCount == 50

Zeros(n) == [k \in 1..n |-> 0]

\* Lines 45-49: 1 / (size of fullest bin)
scale_factor(b) == float_inverse(MaxOf(b))

write_element_unflipped(chart, b, row, eighths) ==
  LET offset == row * m_num_bins + b
      ok     == row >= 0 /\ offset < Len(chart)
  IN [chart |-> IF ok THEN [chart EXCEPT ![offset + 1] = eighths] ELSE chart,
      ok    |-> ok]

\* Lines 87-95.  m_num_rows - row - 1 wraps around for row >= m_num_rows and
\* the offset is then far beyond the chart.
write_element(chart, b, row, eighths) ==
  LET flipped == m_num_rows - row - 1
      offset  == flipped * m_num_bins + b
      ok      == flipped >= 0 /\ offset < Len(chart)
  IN [chart |-> IF ok THEN [chart EXCEPT ![offset + 1] = eighths] ELSE chart,
      ok    |-> ok]

\* Lines 76-79 from row on.  With asserts the loop ends at the first failed
\* assert of write_element; without, a store outside the chart leaves the
\* chart as it is and the loop goes on: from row m_num_rows on every store
\* is outside the chart.
RECURSIVE write_full_rows(_, _, _, _, _)
write_full_rows(chart, b, row, num_full, asserts) ==
  IF row < num_full
    THEN IF ~asserts /\ row >= m_num_rows
           THEN [chart |-> chart, ok |-> FALSE]
           ELSE LET w == write_element(chart, b, row, 8)
                IN IF ~w.ok /\ asserts
                     THEN w
                     ELSE LET rest == write_full_rows(w.chart, b, row + 1,
                                                      num_full, asserts)
                          IN [chart |-> rest.chart, ok |-> w.ok /\ rest.ok]
    ELSE [chart |-> chart, ok |-> TRUE]

\* Lines 68-73.
quantize(value, scale) ==
  LET scaled_value == float_times(scale, value)
      partial_frac == float_fmod_one(scaled_value)
  IN [num_full |-> float_trunc(float_times(scaled_value, m_num_rows)),
      eighths  |-> float_trunc(float_times(partial_frac, 8)) % 256]

\* Line 67: the values m_bins[k] can yield (k is 0-based).
ReadBin(k) ==
  IF m_bins_state = "dead" THEN 0..GarbageCount ELSE {At(m_bins, k)}

\* Lines 64-85 for the value read at line 67, in a build with or without
\* asserts; ok is FALSE when the condition of an assert is false.
render_bin(chart, b, value, asserts) ==
  LET lv == quantize(value, m_scale_factor)
  IN IF asserts /\ ~(lv.num_full <= m_num_rows)
       THEN [chart |-> chart, ok |-> FALSE, num_full |-> lv.num_full]
       ELSE LET full == write_full_rows(chart, b, 0, lv.num_full, asserts)
                part == IF (asserts => full.ok) /\ lv.num_full < m_num_rows
                          THEN write_element(full.chart, b, lv.num_full,
                                             lv.eighths)
                          ELSE [chart |-> full.chart, ok |-> TRUE]
            IN [chart |-> part.chart,
                ok |-> lv.num_full <= m_num_rows /\ full.ok /\ part.ok,
                num_full |-> lv.num_full]

render_eighth_skipping_blank(eighth) ==
  IF eighth \in 1..8 THEN <<9600 + eighth>> ELSE <<>>

\* Lines 104-142: " " for 0 and by default, U+2581 .. U+2588 for 1 .. 8.
render_eighth(eighth) ==
  IF eighth \in 1..8 THEN <<9600 + eighth>> ELSE <<32>>

\* Lines 97-101.
get_row(chart, row) ==
  SubSeq(chart, row * m_num_bins + 1, (row + 1) * m_num_bins)

RECURSIVE render_cells(_)
render_cells(cells) ==
  IF cells = <<>> THEN <<>>
  ELSE render_eighth(Head(cells)) \o render_cells(Tail(cells))

\* Lines 144-162 from row on: "|", the row's glyphs, "|\n".
RECURSIVE render_string(_, _)
render_string(chart, row) ==
  IF row < m_num_rows
    THEN <<124>> \o render_cells(get_row(chart, row)) \o <<124, 10>>
           \o render_string(chart, row + 1)
    ELSE <<>>

\* Histogram vectors of n + 2 counts with a single non-zero entry c.
SingleBin(n, c) ==
  {[k \in 1..(n + 2) |-> IF k = j THEN c ELSE 0] : j \in 1..(n + 2)}

\* Lines 37-51: the state when the constructor has returned.
InitRender ==
  /\ op = "render"
  /\ pc = "constructed"
  /\ \/ \E n \in 1..MaxRenderBins :
          m_bins \in [1..(n + 2) -> 0..MaxSmallCount]
     \/ \E n \in 1..MaxRenderBins : \E c \in 1..MaxCount :
          m_bins \in SingleBin(n, c)
     \/ \E a, b \in 0..MaxCount : m_bins = <<0, a, b, 0>>
  /\ MaxOf(m_bins) > 0
  /\ m_num_bins = Len(m_bins) - 2
  /\ m_bins_state = "intact"
  /\ m_scale_factor = scale_factor(m_bins)
  /\ m_chart = Zeros(m_num_bins * m_num_rows)
  /\ bin = 0
  /\ num_fulls = <<>>
  /\ assert_ok = TRUE
  /\ text = <<>>
  /\ data = <<>>
  /\ HistArgsIdle
  /\ HistLocalsIdle
  /\ StatIdle

\* The caller's vector ends its lifetime before render() is called.
CallerDestroys ==
  /\ op = "render"
  /\ pc = "constructed"
  /\ m_bins_state = "intact"
  /\ m_bins_state' = "dead"
  /\ m_bins' = <<>>
  /\ UNCHANGED <<op, pc, histVars, statVars, m_num_bins, m_scale_factor,
                 m_chart, bin, num_fulls, assert_ok, text>>

\* Lines 55-58, one iteration.  A false assert condition aborts in a build
\* with asserts; in a build without (the build of every later iteration too)
\* the stores outside m_chart have been made: the call crashes, or goes on
\* and reads the vector, which the stores may have overwritten, as a dead one.
RenderBin ==
  /\ op = "render"
  /\ pc \in {"constructed", "render"}
  /\ bin < m_num_bins
  /\ \E value \in ReadBin(bin + 1) :
     \E asserts \in IF assert_ok THEN BOOLEAN ELSE {FALSE} :
       LET r == render_bin(m_chart, bin, value, asserts)
       IN /\ m_chart' = r.chart
          /\ num_fulls' = Append(num_fulls, r.num_full)
          /\ assert_ok' = (assert_ok /\ r.ok)
          /\ pc' \in IF r.ok THEN {"render"}
                     ELSE IF asserts THEN {"abort"}
                     ELSE {"render", "crash"}
          /\ m_bins_state' = IF r.ok \/ asserts THEN m_bins_state ELSE "dead"
          /\ m_bins' = IF r.ok \/ asserts THEN m_bins ELSE <<>>
  /\ bin' = bin + 1
  /\ UNCHANGED <<op, histVars, statVars, m_num_bins, m_scale_factor, text>>

\* Line 67 on a dead vector: the read faults.
RenderCrash ==
  /\ op = "render"
  /\ pc \in {"constructed", "render"}
  /\ bin < m_num_bins
  /\ m_bins_state = "dead"
  /\ pc' = "crash"
  /\ UNCHANGED <<op, histVars, statVars, rendVars>>

\* Lines 55-60: the loop's exit and render_string.
RenderString ==
  /\ op = "render"
  /\ pc \in {"constructed", "render"}
  /\ ~(bin < m_num_bins)
  /\ text' = render_string(m_chart, 0)
  /\ pc' = "done"
  /\ UNCHANGED <<op, histVars, statVars, m_bins, m_bins_state, m_num_bins,
                 m_scale_factor, m_chart, bin, num_fulls, assert_ok>>

NextRender ==
  \/ CallerDestroys
  \/ RenderBin
  \/ RenderCrash
  \/ RenderString

SpecRender == InitRender /\ [][NextRender]_vars

(***************************************************************************)
(* Properties of histogram_printer                                         *)
(***************************************************************************)
Glyphs == {32} \cup {9600 + k : k \in 1..8}

\* C8: render() returns exactly m_num_rows = 10 lines, each "|", then one
\* glyph per bin, then "|" and a newline, whatever the counts are.
C8_RenderShape ==
  (Done /\ op = "render") =>
    LET width == m_num_bins + 3 IN
    /\ Len(text) = m_num_rows * width
    /\ Cardinality({k \in 1..Len(text) : text[k] = 10}) = m_num_rows
    /\ \A r \in 0..(m_num_rows - 1) :
         /\ text[r * width + 1] = 124
         /\ \A c \in 1..m_num_bins : text[r * width + 1 + c] \in Glyphs
         /\ text[r * width + m_num_bins + 2] = 124
         /\ text[r * width + width] = 10

C8_Witness ==
  /\ Done
  /\ op = "render"
  /\ m_bins_state = "intact"
  /\ m_num_bins = 2
  /\ \E k \in 1..Len(text) : text[k] = 32
  /\ \E k \in 1..Len(text) : text[k] = 9608
  /\ \E k \in 1..Len(text) : text[k] \in 9601..9607

\* Cell of column b in line row of the chart, line 0 being the bottom line.
Cell(b, row) == At(m_chart, (m_num_rows - 1 - row) * m_num_bins + b)

OnlyBin(j) ==
  /\ At(m_bins, j) > 0
  /\ \A k \in 0..(m_num_bins + 1) : k # j => At(m_bins, k) = 0

\* C9: when the only non-zero entry is an in-window bin, its column is
\* m_num_rows cells of level 8 and every other cell is 0, for every positive
\* count (for a vector that is alive until render() returns).
C9_SingleBinFullColumn ==
  (Done /\ op = "render" /\ m_bins_state = "intact") =>
    \A j \in 1..m_num_bins :
      OnlyBin(j) =>
        \A b \in 0..(m_num_bins - 1) : \A row \in 0..(m_num_rows - 1) :
          Cell(b, row) = IF b = j - 1 THEN 8 ELSE 0

BarShaped(b, num_full) ==
  \A row \in 0..(m_num_rows - 1) :
    /\ (row < num_full => Cell(b, row) = 8)
    /\ (row = num_full => Cell(b, row) \in 0..7)
    /\ (row > num_full => Cell(b, row) = 0)

RendererAsserts ==
  /\ assert_ok
  /\ pc # "abort"
  /\ Len(num_fulls) = bin
  /\ \A k \in 1..Len(m_chart) : m_chart[k] \in 0..8
  /\ \A b \in 0..(bin - 1) :
       /\ num_fulls[b + 1] <= m_num_rows
       /\ BarShaped(b, num_fulls[b + 1])
  /\ \A b1, b2 \in 0..(bin - 1) :
       At(m_bins, b1 + 1) >= At(m_bins, b2 + 1) =>
         \A row \in 0..(m_num_rows - 1) : Cell(b1, row) >= Cell(b2, row)

\* C10: for every histogram vector of non-negative counts with a non-zero
\* entry no assert of the renderer fails (num_full <= m_num_rows in every
\* render_bin, offset < m_chart.size() in every write_element); every cell
\* is in 0..8; every rendered column is num_full cells of 8 from the bottom,
\* then at most one partial cell of 0..7, then only 0; a bin with a larger
\* count never has a lower cell than a bin with a smaller count.
C10_RendererAsserts ==
  (op = "render" /\ m_bins_state = "intact") => RendererAsserts

C10_Witness ==
  /\ Done
  /\ op = "render"
  /\ m_bins_state = "intact"
  /\ m_num_bins = 2
  /\ num_fulls[1] = m_num_rows
  /\ num_fulls[2] \in 1..(m_num_rows - 1)
  /\ Cell(1, num_fulls[2]) \in 1..7

(***************************************************************************)
(* All entry points together.                                              *)
(***************************************************************************)
Init == InitHist \/ InitPct \/ InitNoise \/ InitRender

Next == NextHist \/ NextPct \/ NextNoise \/ NextRender

Spec == Init /\ [][Next]_vars

====
